---- MODULE Spec2Model ----
(***************************************************************************)
(* Chunking strategies of app/chunking/strategies.py.                      *)
(*                                                                         *)
(* A text is a sequence of one-character strings.  Offsets are 0-based as  *)
(* in the Python source: the slice text[a:b] is Slice(text, a, b).         *)
(*                                                                         *)
(* Three specifications:                                                   *)
(*   SplitSpec  BasicChunkingStrategy._split_text_with_overlap run one     *)
(*              loop iteration at a time on an arbitrary text, followed by *)
(*              the metadata loop of _chunk_section;                       *)
(*   BreakSpec  SmartChunkingStrategy._find_semantic_breaks on a text and  *)
(*              a response, followed by _split_at_break_points;            *)
(*   Spec       chunk_document of both strategies on a document, with the  *)
(*              asyncio tasks of the smart strategy interleaved.           *)
(***************************************************************************)
EXTENDS Integers, Sequences, FiniteSets, TLC

VARIABLES
    max_chunk_size,   \* self.max_chunk_size
    overlap_size,     \* self.overlap_size
    s_text,           \* _split_text_with_overlap: the argument text
    s_start,          \* _split_text_with_overlap: the cursor start
    s_chunks,         \* _split_text_with_overlap: the list chunks
    s_slices,         \* history: <<start, end>> of the slice of every emitted piece
    s_pc,             \* "idle", "loop", "returned", "chunked"
    s_result,         \* _chunk_section: the chunks built from the pieces
    document,         \* document.sections: the full text of every section
    use_summaries,    \* self.use_summaries
    strategy,         \* "basic" or "smart": the strategy whose chunk_document runs
    pc,               \* where chunk_document is
    chunks,           \* BasicChunkingStrategy.chunk_document: chunks
    chunk_index,      \* BasicChunkingStrategy.chunk_document: chunk_index
    section_no,       \* BasicChunkingStrategy.chunk_document: sections done
    batch_i,          \* SmartChunkingStrategy.chunk_document: i of the batch loop
    tasks,            \* the _chunk_section_semantically task of every section
    batch_results,    \* SmartChunkingStrategy.chunk_document: batch_results
    all_chunks,       \* SmartChunkingStrategy.chunk_document: all_chunks
    summary_tasks,    \* the _generate_summary task of every chunk
    result,           \* the list chunk_document returned
    generate_calls,   \* history: generate_response calls made for each section
    summarize_calls,  \* history: summarize calls made for each chunk position
    only_failures,    \* history: every backend call so far has failed
    b_text,           \* _find_semantic_breaks: the argument text
    b_reply,          \* what the generate_response call of line 324 ends with
    b_breaks,         \* the list _find_semantic_breaks returns
    b_chunks,         \* the list _split_at_break_points returns
    b_pc              \* "idle", "called", "found", "split"

splitvars == <<s_text, s_start, s_chunks, s_slices, s_pc, s_result>>

vars == <<max_chunk_size, overlap_size, s_text, s_start, s_chunks, s_slices, s_pc,
          s_result, document, use_summaries, strategy, pc, chunks, chunk_index,
          section_no, batch_i, tasks, batch_results, all_chunks, summary_tasks, result,
          generate_calls, summarize_calls, only_failures, b_text, b_reply, b_breaks,
          b_chunks, b_pc>>

breakvars == <<b_text, b_reply, b_breaks, b_chunks, b_pc>>

docvars == <<document, use_summaries, strategy, pc, chunks, chunk_index, section_no,
             batch_i, tasks, batch_results, all_chunks, summary_tasks, result,
             generate_calls, summarize_calls, only_failures>>

-----------------------------------------------------------------------------
(* Bounds of the model                                                     *)

\* longest text given to the splitter in SplitSpec
MaxTextLen == 13

\* largest overlap_size tried in SplitSpec
MaxOverlap == 2

-----------------------------------------------------------------------------
(* Characters and strings                                                  *)

NL == "\n"

\* the whitespace str.strip() and the regex class \s recognise in the alphabet
Whitespace == {" ", NL}

Min(a, b) == IF a < b THEN a ELSE b

Max(a, b) == IF a > b THEN a ELSE b

\* text[a:b] for 0 <= a, b
Slice(text, a, b) == SubSeq(text, a + 1, Min(b, Len(text)))

\* str.strip()
Strip(text) ==
    LET solid == {i \in 1..Len(text) : text[i] \notin Whitespace}
    IN  IF solid = {} THEN <<>>
        ELSE SubSeq(text,
                    CHOOSE i \in solid : \A j \in solid : i <= j,
                    CHOOSE i \in solid : \A j \in solid : i >= j)

\* str.rfind(ch, start, end): the highest index in [start, end) holding ch, or -1
RFind(text, ch, start, end) ==
    LET hits == {i \in start..(Min(end, Len(text)) - 1) : text[i + 1] = ch}
    IN  IF hits = {} THEN -1 ELSE CHOOSE i \in hits : \A j \in hits : i >= j

\* all texts over alphabet of length at most n
RECURSIVE TextsUpTo(_, _)
TextsUpTo(alphabet, n) ==
    IF n = 0 THEN {<<>>}
    ELSE LET shorter == TextsUpTo(alphabet, n - 1)
         IN  shorter \cup {Append(t, c) : t \in {u \in shorter : Len(u) = n - 1},
                                          c \in alphabet}

-----------------------------------------------------------------------------
(* BasicChunkingStrategy._split_text_with_overlap                          *)

\* SplitEnd that never cuts a word: a window without a space is extended to
\* the next space, or to the end of the text
SplitEndWholeWord(text, start, max) ==
    LET end == Min(start + max, Len(text))
        later == {i \in end..(Len(text) - 1) : text[i + 1] = " "}
    IN  IF end < Len(text) /\ RFind(text, " ", start, end) < 0
        THEN IF later = {} THEN Len(text) ELSE CHOOSE i \in later : \A j \in later : i <= j
        ELSE end

\* SplitEnd with the slice one character too long
SplitEndPastMax(text, start, max) == Min(start + max + 1, Len(text))

\* lines 135-142: the end of the slice that starts at start.
\* last_space > start + max_chunk_size * 0.8, in integers
SplitEnd(text, start, max) ==
    LET end == Min(start + max, Len(text))
    IN  IF end < Len(text)
        THEN LET last_space == RFind(text, " ", start, end)
             IN  IF 10 * last_space > 10 * start + 8 * max
                 THEN last_space ELSE end
        ELSE end

\* SplitAdvance without the max with end
SplitAdvanceByOverlap(start, end, max, overlap) == start + max - overlap

\* line 149: the next cursor
SplitAdvance(start, end, max, overlap) == Max(start + max - overlap, end)

\* lines 144-146: the list after one more slice
SplitEmit(list, text, start, end) ==
    LET chunk_text == Strip(Slice(text, start, end))
    IN  IF chunk_text # <<>> THEN Append(list, chunk_text) ELSE list

\* the whole loop, lines 134-151, from cursor start with the pieces so far
RECURSIVE SplitLoop(_, _, _, _, _)
SplitLoop(text, start, list, max, overlap) ==
    IF start < Len(text)
    THEN LET end == SplitEnd(text, start, max)
         IN  SplitLoop(text, SplitAdvance(start, end, max, overlap),
                       SplitEmit(list, text, start, end), max, overlap)
    ELSE list

split_text_with_overlap(text, max, overlap) == SplitLoop(text, 0, <<>>, max, overlap)

-----------------------------------------------------------------------------
(* Chunks and BasicChunkingStrategy._chunk_section                         *)

\* ChunkMetadata.total_chunks before the backfill
NoTotal == 0 - 1

\* Chunk.summary: <<>> is None, <<s>> is the string s
NoSummary == <<>>

\* a Chunk with its ChunkMetadata. source_section stands for section.title;
\* overlap_before, overlap_after default to 0 when the constructor call omits them
NewChunk(content, title, index, end_position, before, after) ==
    [content |-> content, source_section |-> title, chunk_index |-> index,
     start_position |-> 0, end_position |-> end_position,
     overlap_before |-> before, overlap_after |-> after,
     total_chunks |-> NoTotal, summary |-> NoSummary]

\* lines 108-127: one chunk per piece
PieceChunks(chunk_pieces, title, start_chunk_index, overlap) ==
    [i \in 1..Len(chunk_pieces) |->
        NewChunk(chunk_pieces[i], title, start_chunk_index + (i - 1),
                 Len(chunk_pieces[i]),
                 IF i - 1 > 0 THEN overlap ELSE 0,
                 IF i - 1 < Len(chunk_pieces) - 1 THEN overlap ELSE 0)]

\* lines 78-127
chunk_section(section_text, title, start_chunk_index, max, overlap) ==
    IF Strip(section_text) = <<>> THEN <<>>
    ELSE IF Len(section_text) <= max
    THEN <<NewChunk(section_text, title, start_chunk_index, Len(section_text), 0, 0)>>
    ELSE PieceChunks(split_text_with_overlap(section_text, max, overlap),
                     title, start_chunk_index, overlap)

-----------------------------------------------------------------------------
(* BasicChunkingStrategy.chunk_document                                    *)

\* NextChunkIndex counting sections, not chunks
NextChunkIndexPerSection(index, section_chunks) == index + 1

\* line 55: the running index after a section's chunks
NextChunkIndex(index, section_chunks) == index + Len(section_chunks)

\* BasicTotals without the backfill
BasicTotalsUnset(list) == list

\* lines 62-64: the total_chunks backfill
BasicTotals(list) == [k \in 1..Len(list) |-> [list[k] EXCEPT !.total_chunks = Len(list)]]

\* lines 50-55, from section k + 1 on. The position of a section stands for its title.
RECURSIVE BasicSections(_, _, _, _, _, _)
BasicSections(sections, k, list, index, max, overlap) ==
    IF k < Len(sections)
    THEN LET section_chunks == chunk_section(sections[k + 1], k + 1, index, max, overlap)
         IN  BasicSections(sections, k + 1, list \o section_chunks,
                           NextChunkIndex(index, section_chunks), max, overlap)
    ELSE list

\* lines 41-67
basic_chunk_document(sections, max, overlap) ==
    BasicTotals(BasicSections(sections, 0, <<>>, 0, max, overlap))

-----------------------------------------------------------------------------
(* The LLM backend: what a generate_response or summarize call ends with   *)

\* the call raises
Raises == [raised |-> TRUE, success |-> FALSE, content |-> <<>>]

\* the call returns a response
Response(success, content) == [raised |-> FALSE, success |-> success, content |-> content]

\* the call failed: it raised, reported no success, or returned empty content
Failed(reply) == reply.raised \/ ~reply.success \/ reply.content = <<>>

-----------------------------------------------------------------------------
(* SmartChunkingStrategy: break points                                     *)

Digits == <<"0", "1", "2", "3", "4", "5", "6", "7", "8", "9">>

IsDigit(c) == \E d \in 1..10 : Digits[d] = c

\* int() of one digit
DigitValue(c) == (CHOOSE d \in 1..10 : Digits[d] = c) - 1

\* re.findall(r"\d+", content) with int() applied: the maximal digit runs of
\* content from position k on, run being the value of the run that ends at k - 1
\* (-1 when no run is open)
RECURSIVE DigitRuns(_, _, _)
DigitRuns(content, k, run) ==
    IF k > Len(content)
    THEN IF run >= 0 THEN <<run>> ELSE <<>>
    ELSE IF IsDigit(content[k])
    THEN DigitRuns(content, k + 1, (IF run >= 0 THEN 10 * run ELSE 0) + DigitValue(content[k]))
    ELSE (IF run >= 0 THEN <<run>> ELSE <<>>) \o DigitRuns(content, k + 1, -1)

\* lines 342-347: re.finditer(r"\n\s*\n", text) from offset from on. A match
\* starts at the leftmost newline that a later newline follows with only
\* whitespace between, and extends to the last such newline
RECURSIVE ParagraphBreaksFrom(_, _)
ParagraphBreaksFrom(text, from) ==
    LET Closes(p, q) == /\ text[q + 1] = NL
                        /\ \A r \in (p + 1)..(q - 1) : text[r + 1] \in Whitespace
        starts == {p \in from..(Len(text) - 1) :
                     /\ text[p + 1] = NL
                     /\ \E q \in (p + 1)..(Len(text) - 1) : Closes(p, q)}
    IN  IF starts = {} THEN <<>>
        ELSE LET p == CHOOSE x \in starts : \A y \in starts : x <= y
                 ends == {q \in (p + 1)..(Len(text) - 1) : Closes(p, q)}
                 q == CHOOSE x \in ends : \A y \in ends : x >= y
             IN  <<p>> \o ParagraphBreaksFrom(text, q + 1)

find_paragraph_breaks(text) == ParagraphBreaksFrom(text, 0)

\* ParsedBreaks with len(text) accepted as an offset
ParsedBreaksInclusive(text, content) ==
    SortSeq(SelectSeq(DigitRuns(content, 1, -1), LAMBDA pos : 0 < pos /\ pos <= Len(text)),
            LAMBDA a, b : a < b)

\* lines 326-334: the offsets parsed from a usable response
ParsedBreaks(text, content) ==
    SortSeq(SelectSeq(DigitRuns(content, 1, -1), LAMBDA pos : 0 < pos /\ pos < Len(text)),
            LAMBDA a, b : a < b)

\* find_semantic_breaks that takes a response without offsets for a failure
find_semantic_breaks_or_paragraphs(text, reply) ==
    IF ~reply.raised /\ reply.success /\ reply.content # <<>>
       /\ ParsedBreaks(text, reply.content) # <<>>
    THEN ParsedBreaks(text, reply.content)
    ELSE find_paragraph_breaks(text)

\* lines 305-340, the call having ended with reply
find_semantic_breaks(text, reply) ==
    IF ~reply.raised /\ reply.success /\ reply.content # <<>>
    THEN ParsedBreaks(text, reply.content)
    ELSE find_paragraph_breaks(text)

\* lines 358-363, from break point k on
RECURSIVE BreakLoop(_, _, _, _, _, _, _)
BreakLoop(text, break_points, k, start, list, max, overlap) ==
    IF k > Len(break_points) THEN <<start, list>>
    ELSE LET break_point == break_points[k]
         IN  IF 2 * (break_point - start) > max
             THEN LET chunk == Strip(Slice(text, start, break_point))
                  IN  BreakLoop(text, break_points, k + 1, Max(0, break_point - overlap),
                                IF chunk # <<>> THEN Append(list, chunk) ELSE list,
                                max, overlap)
             ELSE BreakLoop(text, break_points, k + 1, start, list, max, overlap)

\* split_at_break_points without the delegation of lines 351-353
split_at_break_points_undelegated(text, break_points, max, overlap) ==
    LET after == BreakLoop(text, break_points, 1, 0, <<>>, max, overlap)
        final_chunk == Strip(Slice(text, after[1], Len(text)))
    IN  IF after[1] < Len(text) /\ final_chunk # <<>>
        THEN Append(after[2], final_chunk) ELSE after[2]

\* lines 349-371
split_at_break_points(text, break_points, max, overlap) ==
    IF break_points = <<>> THEN split_text_with_overlap(text, max, overlap)
    ELSE LET after == BreakLoop(text, break_points, 1, 0, <<>>, max, overlap)
             start == after[1]
             list == after[2]
             final_chunk == Strip(Slice(text, start, Len(text)))
         IN  IF start < Len(text) /\ final_chunk # <<>>
             THEN Append(list, final_chunk) ELSE list

\* lines 280-303: the chunks of a section longer than max_chunk_size, the
\* generate_response call having ended with reply
semantic_chunks(section_text, title, start_chunk_index, reply, max, overlap) ==
    LET break_points == find_semantic_breaks(section_text, reply)
        chunk_texts == split_at_break_points(section_text, break_points, max, overlap)
    IN  [k \in 1..Len(chunk_texts) |->
            NewChunk(Strip(chunk_texts[k]), title, start_chunk_index + (k - 1),
                     Len(chunk_texts[k]), 0, 0)]

\* generate_summary without the test of response.success
generate_summary_unchecked(reply) ==
    IF ~reply.raised /\ reply.content # <<>> THEN <<Strip(reply.content)>> ELSE <<>>

\* lines 373-388: what _generate_summary returns, the summarize call having
\* ended with reply; <<>> is None
generate_summary(reply) ==
    IF ~reply.raised /\ reply.success /\ reply.content # <<>>
    THEN <<Strip(reply.content)>>
    ELSE <<>>

-----------------------------------------------------------------------------
(* SplitSpec: the splitter, one loop iteration per step                    *)

SplitAlphabet == {"a", " "}

SplitSizes == {2, 5, 11}

\* the document-level variables while only the splitter runs
DocIdle ==
    /\ document = <<>>
    /\ use_summaries = FALSE
    /\ strategy = "none"
    /\ pc = "idle"
    /\ chunks = <<>>
    /\ chunk_index = 0
    /\ section_no = 0
    /\ batch_i = 0
    /\ tasks = <<>>
    /\ batch_results = <<>>
    /\ all_chunks = <<>>
    /\ summary_tasks = <<>>
    /\ result = <<>>
    /\ generate_calls = <<>>
    /\ summarize_calls = <<>>
    /\ only_failures = TRUE

\* the variables of _find_semantic_breaks while it does not run
BreakIdle ==
    /\ b_text = <<>>
    /\ b_reply = Raises
    /\ b_breaks = <<>>
    /\ b_chunks = <<>>
    /\ b_pc = "idle"

SplitInit ==
    /\ DocIdle
    /\ BreakIdle
    /\ max_chunk_size \in SplitSizes
    /\ overlap_size \in 0..MaxOverlap
    /\ s_text \in TextsUpTo(SplitAlphabet, MaxTextLen)
    /\ s_start = 0
    /\ s_chunks = <<>>
    /\ s_slices = <<>>
    /\ s_pc = "loop"
    /\ s_result = <<>>

\* one iteration of the while loop, lines 134-149
SplitIterate ==
    /\ s_pc = "loop"
    /\ s_start < Len(s_text)
    /\ LET end == SplitEnd(s_text, s_start, max_chunk_size)
       IN  /\ s_chunks' = SplitEmit(s_chunks, s_text, s_start, end)
           /\ s_slices' = IF Strip(Slice(s_text, s_start, end)) # <<>>
                          THEN Append(s_slices, <<s_start, end>>) ELSE s_slices
           /\ s_start' = SplitAdvance(s_start, end, max_chunk_size, overlap_size)
    /\ UNCHANGED <<max_chunk_size, overlap_size, s_text, s_pc, s_result, docvars,
                   breakvars>>

\* the loop condition fails: return chunks, line 151
SplitReturn ==
    /\ s_pc = "loop"
    /\ ~(s_start < Len(s_text))
    /\ s_pc' = "returned"
    /\ UNCHANGED <<max_chunk_size, overlap_size, s_text, s_start, s_chunks,
                   s_slices, s_result, docvars,
                   breakvars>>

\* _chunk_section on a text longer than max_chunk_size, lines 105-127
ChunkSectionPieces ==
    /\ s_pc = "returned"
    /\ Strip(s_text) # <<>>
    /\ Len(s_text) > max_chunk_size
    /\ s_result' = PieceChunks(s_chunks, "s", 0, overlap_size)
    /\ s_pc' = "chunked"
    /\ UNCHANGED <<max_chunk_size, overlap_size, s_text, s_start, s_chunks, s_slices,
                   docvars,
                   breakvars>>

SplitNext == SplitIterate \/ SplitReturn \/ ChunkSectionPieces

SplitSpec == SplitInit /\ [][SplitNext]_vars

-----------------------------------------------------------------------------
(* Spec: chunk_document on a document                                      *)

\* line 192
batch_size == 3

\* line 234
summary_batch_size == 5

\* line 205: the divisor of the rough chunk_index estimate
IndexDivisor == 1000

\* line 228: only chunks longer than this are summarised. The source has 200;
\* the texts of the model are a few characters long and the threshold is
\* scaled with them
SummaryThreshold == 4

\* most sections of a document
MaxSections == 4

\* section texts: whitespace only; fitting max_chunk_size; longer
Blank == <<" ">>

Fitting == <<"a", "a", "a", "a">>

Long == <<"a", "a", " ", "a", "a">>

\* longer, with a paragraph break far enough from the start to be accepted
LateBreak == <<"a", "a", "a", NL, NL, "a">>

\* longer, with a paragraph break too early to be accepted
EarlyBreak == <<"a", "a", NL, NL, "a", "a">>

\* a section of summary_batch_size + 1 paragraphs: with the paragraph breaks
\* as break points it gives more chunks than one summary batch holds
RECURSIVE Paragraphs(_)
Paragraphs(n) ==
    IF n = 0 THEN <<"a", "a">>
    ELSE Paragraphs(n - 1) \o <<"a", "a", "a", NL, NL>>

ManyParagraphs == Paragraphs(summary_batch_size) \o <<"a", "a", "a">>

\* a paragraph break followed by a tail longer than max_chunk_size
LongTail == <<"a", NL, NL, "a", "a", "a", "a", "a">>

\* the texts every document of at most MaxSections sections is built from
SectionTexts == {Blank, Fitting, Long}

\* documents with paragraph breaks, some with chunks long enough to be summarised
ParagraphDocuments ==
    {<<ManyParagraphs>>, <<LateBreak, Long>>, <<Fitting, LongTail>>,
     <<EarlyBreak, Fitting, Blank, EarlyBreak>>}

RECURSIVE SequencesUpTo(_, _)
SequencesUpTo(set, n) ==
    IF n = 0 THEN {<<>>}
    ELSE LET shorter == SequencesUpTo(set, n - 1)
         IN  shorter \cup {Append(q, x) : q \in {u \in shorter : Len(u) = n - 1}, x \in set}

Documents == SequencesUpTo(SectionTexts, MaxSections) \cup ParagraphDocuments

\* what generate_response may end with
GenerateReplies ==
    {Raises, Response(FALSE, <<"3">>), Response(TRUE, <<>>),
     Response(TRUE, <<"4", ",", "3">>), Response(TRUE, <<"x">>)}

\* what summarize may end with
SummarizeReplies ==
    {Raises, Response(FALSE, <<"s">>), Response(TRUE, <<>>),
     Response(TRUE, <<" ">>), Response(TRUE, <<" ", "s", " ">>)}

\* a _generate_summary task: reply is the history of what its summarize call ended with
NewSummaryTask == [st |-> "none", value |-> <<>>, reply |-> <<>>]

\* a _chunk_section_semantically task: completed is the history of its place
\* among the tasks of its batch in completion order, 0 while it has not completed
NewTask == [st |-> "none", index |-> 0, chunks |-> <<>>, completed |-> 0]

Init ==
    /\ max_chunk_size = 4
    /\ overlap_size \in {0, 1}
    /\ document \in Documents
    /\ use_summaries \in BOOLEAN
    /\ strategy \in {"basic", "smart"}
    /\ pc = IF strategy = "basic" THEN "sections" ELSE "batch"
    /\ chunks = <<>>
    /\ chunk_index = 0
    /\ section_no = 0
    /\ batch_i = 0
    /\ tasks = [k \in 1..Len(document) |-> NewTask]
    /\ batch_results = <<>>
    /\ all_chunks = <<>>
    /\ summary_tasks = <<>>
    /\ result = <<>>
    /\ generate_calls = [k \in 1..Len(document) |-> 0]
    /\ summarize_calls = <<>>
    /\ only_failures = TRUE
    /\ s_text = <<>>
    /\ s_start = 0
    /\ s_chunks = <<>>
    /\ s_slices = <<>>
    /\ s_pc = "idle"
    /\ s_result = <<>>
    /\ BreakIdle

config == <<max_chunk_size, overlap_size, document, use_summaries, strategy>>

basicvars == <<chunks, chunk_index, section_no>>

(* BasicChunkingStrategy.chunk_document *)

\* line 50: the loop has a section left
MoreSections == pc = "sections" /\ section_no < Len(document)

\* lines 50-59: one iteration of the loop over the sections
BasicSection ==
    /\ MoreSections
    /\ LET section_chunks == chunk_section(document[section_no + 1], section_no + 1,
                                           chunk_index, max_chunk_size, overlap_size)
       IN  /\ chunks' = chunks \o section_chunks
           /\ chunk_index' = NextChunkIndex(chunk_index, section_chunks)
    /\ section_no' = section_no + 1
    /\ UNCHANGED <<config, pc, batch_i, tasks, batch_results, all_chunks, summary_tasks,
                   result, generate_calls, summarize_calls, only_failures, splitvars,
                   breakvars>>

\* lines 61-67: backfill total_chunks and return
BasicReturn ==
    /\ pc = "sections"
    /\ section_no = Len(document)
    /\ result' = BasicTotals(chunks)
    /\ pc' = "done"
    /\ UNCHANGED <<config, basicvars, batch_i, tasks, batch_results, all_chunks,
                   summary_tasks, generate_calls, summarize_calls, only_failures,
                   splitvars,
                   breakvars>>

(* SmartChunkingStrategy.chunk_document: the section batches *)

\* BatchOf with a slice one section too long
BatchOfOneMore(at) == (at + 1)..Min(at + batch_size + 1, Len(document))

\* the positions of the sections of the batch that starts at offset at
BatchOf(at) == (at + 1)..Min(at + batch_size, Len(document))

\* len(s.content): the length of the section's text
ContentLength(section) == Len(section)

\* line 205: the rough chunk_index of the section at position k
RECURSIVE ContentBefore(_)
ContentBefore(k) == IF k <= 1 THEN 0 ELSE ContentLength(document[k - 1]) + ContentBefore(k - 1)

IndexEstimate(k) == ContentBefore(k) \div IndexDivisor

\* lines 195-209: the coroutines of the next batch are created; as_completed
\* (line 214) schedules them all as tasks
CreateBatch ==
    /\ pc = "batch"
    /\ batch_i < Len(document)
    /\ tasks' = [k \in 1..Len(document) |->
                    IF k \in BatchOf(batch_i)
                    THEN [NewTask EXCEPT !.st = "pending", !.index = IndexEstimate(k)]
                    ELSE tasks[k]]
    /\ batch_results' = <<>>
    /\ pc' = "as_completed"
    /\ UNCHANGED <<config, basicvars, batch_i, all_chunks, summary_tasks, result,
                   generate_calls, summarize_calls, only_failures, splitvars,
                   breakvars>>

\* a task that ends with its chunks: while chunk_document is in the
\* as_completed loop (lines 214-217) it receives them next
Completed(k, section_chunks) ==
    /\ tasks' = [tasks EXCEPT
                    ![k] = [@ EXCEPT !.st = "done", !.chunks = section_chunks,
                                     !.completed = 1 + Cardinality({j \in BatchOf(batch_i) :
                                                                      tasks[j].st = "done"})]]
    /\ batch_results' = IF pc = "as_completed"
                        THEN Append(batch_results, section_chunks) ELSE batch_results

\* line 271
IsEmptySection(section_text) == Strip(section_text) = <<>>

\* IsSmallSection with a strict comparison
IsSmallSectionStrict(section_text, max) == Len(section_text) < max

\* line 275
IsSmallSection(section_text, max) == Len(section_text) <= max

\* lines 269-281: a task runs up to its generate_response call, or to its end
\* when the section is empty or fits max_chunk_size
TaskStart(k) ==
    /\ tasks[k].st = "pending"
    /\ LET section_text == document[k]
       IN  IF IsEmptySection(section_text)
           THEN Completed(k, <<>>) /\ UNCHANGED generate_calls
           ELSE IF IsSmallSection(section_text, max_chunk_size)
           THEN /\ Completed(k, chunk_section(section_text, k, tasks[k].index,
                                              max_chunk_size, overlap_size))
                /\ UNCHANGED generate_calls
           ELSE /\ tasks' = [tasks EXCEPT ![k].st = "awaiting"]
                /\ generate_calls' = [generate_calls EXCEPT ![k] = @ + 1]
                /\ UNCHANGED batch_results
    /\ UNCHANGED <<config, basicvars, pc, batch_i, all_chunks, summary_tasks, result,
                   summarize_calls, only_failures, splitvars,
                   breakvars>>

\* line 324: the task of section k awaits its generate_response call
AwaitsResponse(k) == tasks[k].st = "awaiting"

\* lines 281-303: generate_response ends with reply and the task runs to its end
GenerateResponseReturns(k, reply) ==
    /\ AwaitsResponse(k)
    /\ Completed(k, semantic_chunks(document[k], k, tasks[k].index, reply,
                                    max_chunk_size, overlap_size))
    /\ only_failures' = (only_failures /\ Failed(reply))
    /\ UNCHANGED <<config, basicvars, pc, batch_i, all_chunks, summary_tasks, result,
                   generate_calls, summarize_calls, splitvars,
                   breakvars>>

\* lines 260-303 have no handler: an exception raised in the task by anything
\* but the backend call ends the task, and await task (line 215) raises it in
\* chunk_document
TaskRaises(k) ==
    /\ pc = "as_completed"
    /\ tasks[k].st = "awaiting"
    /\ tasks' = [tasks EXCEPT ![k].st = "raised"]
    /\ pc' = "except"
    /\ UNCHANGED <<config, basicvars, batch_i, batch_results, all_chunks, summary_tasks,
                   result, generate_calls, summarize_calls, only_failures, splitvars,
                   breakvars>>

RECURSIVE Concat(_, _)
Concat(lists, upto) == IF upto = 0 THEN <<>> ELSE Concat(lists, upto - 1) \o lists[upto]

\* Extended with the results of the batch in the order of their sections
ExtendedInSubmissionOrder(list, results) ==
    LET filled == SelectSeq(results, LAMBDA section_chunks : section_chunks # <<>>)
        ordered == SortSeq(filled, LAMBDA a, b : a[1].source_section < b[1].source_section)
    IN  list \o Concat(ordered, Len(ordered))

\* Extended with the results of the batch put in front of the list
ExtendedInFront(list, results) == Concat(results, Len(results)) \o list

\* lines 220-221: the list extended with every result of the batch
Extended(list, results) == list \o Concat(results, Len(results))

\* lines 219-221: every task of the batch has been received; extend all_chunks
CollectBatch ==
    /\ pc = "as_completed"
    /\ Len(batch_results) = Cardinality(BatchOf(batch_i))
    /\ all_chunks' = Extended(all_chunks, batch_results)
    /\ batch_i' = batch_i + batch_size
    /\ pc' = "batch"
    /\ UNCHANGED <<config, basicvars, tasks, batch_results, summary_tasks, result,
                   generate_calls, summarize_calls, only_failures, splitvars,
                   breakvars>>

\* line 195 ends the loop; lines 224-231: with use_summaries the summary
\* coroutines are created, one for every chunk
SectionsDone ==
    /\ pc = "batch"
    /\ batch_i >= Len(document)
    /\ batch_i' = 0
    /\ summary_tasks' = [k \in 1..Len(all_chunks) |-> NewSummaryTask]
    /\ summarize_calls' = [k \in 1..Len(all_chunks) |-> 0]
    /\ pc' = IF use_summaries /\ all_chunks # <<>> THEN "summaries" ELSE "totals"
    /\ UNCHANGED <<config, basicvars, tasks, batch_results, all_chunks, result,
                   generate_calls, only_failures, splitvars,
                   breakvars>>

(* SmartChunkingStrategy.chunk_document: the summaries *)

SummaryBatchOf(at) == (at + 1)..Min(at + summary_batch_size, Len(all_chunks))

\* lines 227-231: is position k given a _generate_summary coroutine
Summarised(k) == Len(all_chunks[k].content) > SummaryThreshold

\* lines 236-238: gather starts the tasks of the next batch; each
\* _generate_summary runs up to its summarize call, each placeholder ends with None
StartSummaryBatch ==
    /\ pc = "summaries"
    /\ batch_i < Len(all_chunks)
    /\ summary_tasks' = [k \in 1..Len(all_chunks) |->
                            IF k \in SummaryBatchOf(batch_i)
                            THEN [NewSummaryTask EXCEPT
                                     !.st = IF Summarised(k) THEN "awaiting" ELSE "done"]
                            ELSE summary_tasks[k]]
    /\ summarize_calls' = [k \in 1..Len(all_chunks) |->
                             IF k \in SummaryBatchOf(batch_i) /\ Summarised(k)
                             THEN summarize_calls[k] + 1 ELSE summarize_calls[k]]
    /\ pc' = "gather"
    /\ UNCHANGED <<config, basicvars, batch_i, tasks, batch_results, all_chunks, result,
                   generate_calls, only_failures, splitvars,
                   breakvars>>

\* lines 380-388: summarize ends with reply and _generate_summary returns
SummarizeReturns(k, reply) ==
    /\ summary_tasks[k].st = "awaiting"
    /\ summary_tasks' = [summary_tasks EXCEPT
                            ![k] = [st |-> "done", value |-> generate_summary(reply),
                                    reply |-> <<reply>>]]
    /\ only_failures' = (only_failures /\ Failed(reply))
    /\ UNCHANGED <<config, basicvars, pc, batch_i, tasks, batch_results, all_chunks,
                   result, generate_calls, summarize_calls, splitvars,
                   breakvars>>

\* lines 241-244: is the result of a task assigned to its chunk
Assigned(value) == value # <<>> /\ value[1] # <<>>

\* batch_summaries where one task without a summary leaves the batch without any
batch_summaries_all_or_nothing(ended, at) ==
    [k \in SummaryBatchOf(at) |->
        IF \E j \in SummaryBatchOf(at) : Summarised(j) /\ ~Assigned(ended[j].value)
        THEN <<>> ELSE ended[k].value]

\* line 238: what gather returns for the batch at offset at, every task of it
\* having ended: the result of each task at the position of the task
batch_summaries(ended, at) == [k \in SummaryBatchOf(at) |-> ended[k].value]

\* lines 236-246: gather returns when every task of the batch has ended; the
\* results are assigned by position, and the loop goes on to the next batch
\* or ends
AssignSummaries ==
    /\ pc = "gather"
    /\ \A k \in SummaryBatchOf(batch_i) : summary_tasks[k].st = "done"
    /\ LET gathered == batch_summaries(summary_tasks, batch_i)
       IN  all_chunks' = [k \in 1..Len(all_chunks) |->
                             IF k \in SummaryBatchOf(batch_i) /\ Assigned(gathered[k])
                             THEN [all_chunks[k] EXCEPT !.summary = gathered[k]]
                             ELSE all_chunks[k]]
    /\ batch_i' = batch_i + summary_batch_size
    /\ pc' = IF batch_i' < Len(all_chunks) THEN "summaries" ELSE "totals"
    /\ UNCHANGED <<config, basicvars, tasks, batch_results, summary_tasks, result,
                   generate_calls, summarize_calls, only_failures, splitvars,
                   breakvars>>

\* lines 249-251: the total_chunks backfill
SmartTotals(list) == [k \in 1..Len(list) |-> [list[k] EXCEPT !.total_chunks = Len(list)]]

\* lines 248-254: backfill total_chunks and return
SmartReturn ==
    /\ pc = "totals"
    /\ result' = SmartTotals(all_chunks)
    /\ pc' = "done"
    /\ UNCHANGED <<config, basicvars, batch_i, tasks, batch_results, all_chunks,
                   summary_tasks, generate_calls, summarize_calls, only_failures,
                   splitvars,
                   breakvars>>

\* Handle without the except clause: the exception leaves chunk_document
HandleNothing(sections, max, overlap) == [pc |-> "raised", result |-> <<>>]

\* Handle keeping the chunks the batches before the exception had collected
HandleKeepingPartialWork(sections, max, overlap) ==
    [pc |-> "done", result |-> all_chunks \o basic_chunk_document(sections, max, overlap)]

\* lines 256-258: what the handler does with an exception of the try block
Handle(sections, max, overlap) ==
    [pc |-> "done", result |-> basic_chunk_document(sections, max, overlap)]

\* line 256: an exception has reached the handler
Caught == pc = "except"

\* lines 256-258: the exception is caught and the basic strategy run
Fallback ==
    /\ Caught
    /\ LET handled == Handle(document, max_chunk_size, overlap_size)
       IN  pc' = handled.pc /\ result' = handled.result
    /\ UNCHANGED <<config, basicvars, batch_i, tasks, batch_results, all_chunks,
                   summary_tasks, generate_calls, summarize_calls, only_failures,
                   splitvars,
                   breakvars>>

Next ==
    \/ BasicSection
    \/ BasicReturn
    \/ CreateBatch
    \/ \E k \in 1..Len(document) : TaskStart(k)
    \/ \E k \in 1..Len(document), reply \in GenerateReplies : GenerateResponseReturns(k, reply)
    \/ \E k \in 1..Len(document) : TaskRaises(k)
    \/ CollectBatch
    \/ SectionsDone
    \/ StartSummaryBatch
    \/ \E k \in 1..Len(summary_tasks), reply \in SummarizeReplies : SummarizeReturns(k, reply)
    \/ AssignSummaries
    \/ SmartReturn
    \/ Fallback

Spec == Init /\ [][Next]_vars

-----------------------------------------------------------------------------
(* BreakSpec: _find_semantic_breaks and _split_at_break_points             *)

\* longest text of BreakSpec, ManyParagraphs apart
MaxBreakTextLen == 5

\* longest response content of BreakSpec
MaxReplyLen == 3

BreakAlphabet == {"a", NL}

ReplyAlphabet == {"0", "1", "2", ",", "x"}

BreakSizes == {2, 4}

BreakTexts == TextsUpTo(BreakAlphabet, MaxBreakTextLen) \cup {ManyParagraphs}

\* what the generate_response call may end with
BreakReplies ==
    {Raises} \cup
    {Response(ok, content) : ok \in BOOLEAN, content \in TextsUpTo(ReplyAlphabet, MaxReplyLen)}

BreakInit ==
    /\ DocIdle
    /\ max_chunk_size \in BreakSizes
    /\ overlap_size \in {0, 1}
    /\ s_text = <<>>
    /\ s_start = 0
    /\ s_chunks = <<>>
    /\ s_slices = <<>>
    /\ s_pc = "idle"
    /\ s_result = <<>>
    /\ b_text \in BreakTexts
    /\ b_reply \in BreakReplies
    /\ b_breaks = <<>>
    /\ b_chunks = <<>>
    /\ b_pc = "called"

\* lines 324-340: the call ends with b_reply and _find_semantic_breaks returns
FindSemanticBreaks ==
    /\ b_pc = "called"
    /\ b_breaks' = find_semantic_breaks(b_text, b_reply)
    /\ b_pc' = "found"
    /\ UNCHANGED <<max_chunk_size, overlap_size, splitvars, docvars, b_text, b_reply,
                   b_chunks>>

\* line 285: _split_at_break_points on the break points found
SplitAtBreakPoints ==
    /\ b_pc = "found"
    /\ b_chunks' = split_at_break_points(b_text, b_breaks, max_chunk_size, overlap_size)
    /\ b_pc' = "split"
    /\ UNCHANGED <<max_chunk_size, overlap_size, splitvars, docvars, b_text, b_reply,
                   b_breaks>>

BreakNext == FindSemanticBreaks \/ SplitAtBreakPoints

BreakSpec == BreakInit /\ [][BreakNext]_vars

-----------------------------------------------------------------------------
(* Claims on the splitter                                                  *)

\* the offsets of s_text that some emitted slice [start, end) contains
Covered == {i \in 0..(Len(s_text) - 1) :
              \E k \in 1..Len(s_slices) : s_slices[k][1] <= i /\ i < s_slices[k][2]}

\* C3: coverage. When _split_text_with_overlap returns, every non-whitespace
\* character of the text lies in the slice of some emitted piece.
C3_Coverage ==
    s_pc = "returned" =>
        \A i \in 0..(Len(s_text) - 1) : s_text[i + 1] \notin Whitespace => i \in Covered

\* the number of characters of the text that the slices of pieces k and k + 1 share
SharedAfter(k) == Max(0, s_slices[k][2] - s_slices[k + 1][1])

\* C7: declared overlap is real overlap. When _chunk_section has split a text
\* into n >= 2 pieces with 0 < overlap_size < max_chunk_size, overlap_after of
\* piece k and overlap_before of piece k + 1 equal the number of characters the
\* two pieces share, and piece k + 1 starts overlap_size characters before the
\* end of piece k.
C7_DeclaredOverlapIsReal ==
    (s_pc = "chunked" /\ Len(s_result) >= 2
     /\ 0 < overlap_size /\ overlap_size < max_chunk_size) =>
        /\ s_result[1].overlap_before = 0
        /\ s_result[Len(s_result)].overlap_after = 0
        /\ \A k \in 1..(Len(s_result) - 1) :
              /\ s_result[k].overlap_after = SharedAfter(k)
              /\ s_result[k + 1].overlap_before = SharedAfter(k)
              /\ s_slices[k + 1][1] = s_slices[k][2] - overlap_size

\* C12: splitter termination. For every text, max_chunk_size >= 1 and
\* overlap_size >= 0, also overlap_size >= max_chunk_size: an iteration of
\* the loop of _split_text_with_overlap runs only with start < len(text) and
\* leaves the cursor strictly larger, and the loop ends with
\* start >= len(text); so it makes at most len(text) iterations.
C12_SplitterTerminates ==
    /\ [][(s_pc = "loop" /\ s_pc' = "loop") =>
             (s_start < Len(s_text) /\ s_start' > s_start)]_vars
    /\ [](s_pc \in {"returned", "chunked"} => s_start >= Len(s_text))

\* the loop ended after several iterations with overlap_size >= max_chunk_size
C12_Witness ==
    /\ s_pc = "returned"
    /\ overlap_size >= max_chunk_size
    /\ Len(s_slices) >= 3

-----------------------------------------------------------------------------
(* Claims on chunk_document                                                *)

Sections == 1..Len(document)

\* the smart strategy returned, or will return, without its handler: no task raised
SmartPath == \A k \in Sections : tasks[k].st = "done"

\* a generate_response call was made
GenerateCalled == \E k \in Sections : generate_calls[k] > 0

\* some step of chunk_document, of a task or of a backend call can be taken
CanStep ==
    \/ MoreSections
    \/ \E k \in Sections : AwaitsResponse(k)
    \/ Caught
    \/ ENABLED (\/ BasicReturn
                \/ CreateBatch
                \/ \E k \in Sections : TaskStart(k)
                \/ CollectBatch
                \/ SectionsDone
                \/ StartSummaryBatch
                \/ \E k \in 1..Len(summary_tasks), reply \in SummarizeReplies :
                      SummarizeReturns(k, reply)
                \/ AssignSummaries
                \/ SmartReturn)

\* what is left of a run: how far chunk_document is from its return, and the
\* steps its tasks and loops have left
TaskRank(st) ==
    CASE st = "none" -> 3 [] st = "pending" -> 2 [] st = "awaiting" -> 1 [] OTHER -> 0

RECURSIVE SumRanks(_, _)
SumRanks(list, upto) ==
    IF upto = 0 THEN 0 ELSE TaskRank(list[upto].st) + SumRanks(list, upto - 1)

Phase ==
    CASE pc \in {"batch", "as_completed"} -> 4
      [] pc \in {"summaries", "gather"} -> 3
      [] pc = "totals" -> 2
      [] pc \in {"sections", "except"} -> 1
      [] OTHER -> 0

Remaining ==
    <<Phase,
      2 * (SumRanks(tasks, Len(document)) + SumRanks(summary_tasks, Len(summary_tasks)))
        + (Len(document) - section_no)
        + (IF pc \in {"as_completed", "gather"} THEN 1 ELSE 0)>>

\* the lexicographic order on pairs of naturals
Precedes(a, b) == a[1] < b[1] \/ (a[1] = b[1] /\ a[2] < b[2])

\* C1: chunk_document of the smart strategy always completes and returns a
\* list, whatever every generate_response and summarize call ends with
\* (success, success = false, empty content, an exception): no exception
\* leaves chunk_document, a run that has not returned always has a step to
\* take, and every step brings the return nearer, so that no run goes on
\* for ever.
C1_AlwaysReturns ==
    /\ [](pc # "raised")
    /\ [](pc # "done" => CanStep)
    /\ [][Precedes(Remaining', Remaining)]_vars

\* a run that returned after a failed generate_response call and a summarize
\* call that raised
C1_Witness ==
    /\ pc = "done" /\ strategy = "smart"
    /\ only_failures /\ GenerateCalled
    /\ \E i \in 1..Len(summary_tasks) : summary_tasks[i].reply = <<Raises>>

\* what the basic strategy returns for the same document and sizes
BasicList == basic_chunk_document(document, max_chunk_size, overlap_size)

\* C2 as stated: when every backend call fails, the list the smart strategy
\* returns is identical to the list of the basic strategy: same contents in
\* the same order, same chunk_index, overlap and total_chunks metadata.
C2_IdempotentFallback ==
    (pc = "done" /\ strategy = "smart" /\ only_failures /\ GenerateCalled) =>
        result = BasicList

\* the contents of the chunks of list made from the section called title, in order
ContentsOf(list, title) ==
    LET own == SelectSeq(list, LAMBDA c : c.source_section = title)
    IN  [k \in 1..Len(own) |-> own[k].content]

\* no section longer than max_chunk_size has a blank-line paragraph break
NoParagraphBreaks ==
    \A k \in Sections :
        Len(document[k]) > max_chunk_size => find_paragraph_breaks(document[k]) = <<>>

\* C2: when every backend call fails and no section longer than
\* max_chunk_size has a paragraph break, the list of the smart strategy has
\* the length of the basic strategy's list, for every section the same chunk
\* contents in the same order, and the same total_chunks on every chunk.
C2_FallbackSameContents ==
    (pc = "done" /\ strategy = "smart" /\ only_failures /\ NoParagraphBreaks) =>
        /\ Len(result) = Len(BasicList)
        /\ \A k \in Sections : ContentsOf(result, k) = ContentsOf(BasicList, k)
        /\ \A k \in 1..Len(result) : result[k].total_chunks = Len(BasicList)

\* the smart path returned after two failed generate_response calls, with
\* the contents of the basic list and other metadata
C2_Witness ==
    /\ pc = "done" /\ strategy = "smart" /\ SmartPath
    /\ only_failures /\ NoParagraphBreaks
    /\ Cardinality({k \in Sections : generate_calls[k] > 0}) >= 2
    /\ result # BasicList

\* text has no run of more than max characters without a space
NoLongRun(text, max) ==
    \A a \in 1..(Len(text) - max) : \E i \in a..(a + max) : text[i] = " "

\* C4: size bound. Every chunk the basic strategy returns has at most
\* max_chunk_size characters, for a document whose section texts have no
\* unspaced run longer than max_chunk_size.
C4_SizeBound ==
    (pc = "done" /\ strategy = "basic"
     /\ \A k \in Sections : NoLongRun(document[k], max_chunk_size)) =>
        \A k \in 1..Len(result) : Len(result[k].content) <= max_chunk_size

\* the basic strategy returned several pieces of a section longer than max_chunk_size
C4_Witness ==
    /\ pc = "done" /\ strategy = "basic"
    /\ \A k \in Sections : NoLongRun(document[k], max_chunk_size)
    /\ \E k \in Sections :
          /\ Len(document[k]) > max_chunk_size
          /\ Len(ContentsOf(result, k)) >= 2

\* C5: index uniqueness. The chunk at position k (from 0) of the basic
\* strategy's list has chunk_index = k, in the list under construction and in
\* the list returned, also when sections are empty.
C5_IndexIsPosition ==
    strategy = "basic" =>
        /\ \A k \in 1..Len(chunks) : chunks[k].chunk_index = k - 1
        /\ pc = "done" => \A k \in 1..Len(result) : result[k].chunk_index = k - 1

\* the basic strategy returned chunks of a split section that comes after
\* an empty section and a one-chunk section
C5_Witness ==
    /\ pc = "done" /\ strategy = "basic"
    /\ \E e, f, k \in Sections :
          /\ e < k /\ f < k
          /\ chunk_section(document[e], e, 0, max_chunk_size, overlap_size) = <<>>
          /\ Len(ContentsOf(result, f)) = 1
          /\ Len(ContentsOf(result, k)) >= 2

\* C6: total_chunks consistency. Every chunk of a list chunk_document
\* returns, of either strategy and through the handler of the smart
\* strategy, has total_chunks equal to the length of the list.
C6_TotalChunks ==
    pc = "done" => \A k \in 1..Len(result) : result[k].total_chunks = Len(result)

\* the smart strategy returned several chunks through its handler
C6_Witness ==
    /\ pc = "done" /\ strategy = "smart"
    /\ \E k \in Sections : tasks[k].st = "raised"
    /\ Len(result) >= 2

\* the section tasks started and not ended
SectionTasksInFlight == {k \in Sections : tasks[k].st \in {"pending", "awaiting"}}

\* the generate_response calls, the summarize calls made and not ended
GenerateInFlight == {k \in Sections : tasks[k].st = "awaiting"}

SummarizeInFlight == {i \in 1..Len(summary_tasks) : summary_tasks[i].st = "awaiting"}

\* the batch of the section at position k: the sections go by three
BatchNo(k) == (k - 1) \div 3

\* C8: bounded fan-out. In the smart strategy at most 3 section tasks, hence
\* at most 3 generate_response calls, and at most 5 summarize calls are in
\* flight at any time; no task of a batch is started before every task of
\* the batches before it has completed; no summary task is started before
\* every section task has completed.
C8_BoundedFanOut ==
    strategy = "smart" =>
        /\ Cardinality(SectionTasksInFlight) <= 3
        /\ Cardinality(GenerateInFlight) <= 3
        /\ Cardinality(SummarizeInFlight) <= 5
        /\ \A j, k \in Sections :
              (BatchNo(j) < BatchNo(k) /\ tasks[k].st # "none") => tasks[j].st = "done"
        /\ (\E i \in 1..Len(summary_tasks) : summary_tasks[i].st # "none") => SmartPath

\* three generate_response calls in flight and a section of the next batch waiting
C8_Witness ==
    /\ strategy = "smart"
    /\ Cardinality(GenerateInFlight) = 3
    /\ \E k \in Sections : tasks[k].st = "none"

\* the summarize call of a chunk ended with a response that reports success
\* and has content
ReturnedContent(reply) == ~reply.raised /\ reply.success /\ reply.content # <<>>

\* the same, the content being more than whitespace
ReturnedText(reply) == ReturnedContent(reply) /\ Strip(reply.content) # <<>>

\* after a return through the smart path with use_summaries: the chunk at
\* position i has a summary iff it has more than SummaryThreshold characters
\* and its own summarize call ended Usable, the summary is then the trimmed
\* content of that call, and a chunk of at most SummaryThreshold characters
\* had no call
SummaryRule(Usable(_)) ==
    (pc = "done" /\ strategy = "smart" /\ use_summaries /\ SmartPath) =>
        \A i \in 1..Len(result) :
            LET ended == summary_tasks[i].reply
                long == Len(result[i].content) > SummaryThreshold
                usable == long /\ ended # <<>> /\ Usable(ended[1])
            IN  /\ result[i].summary # NoSummary <=> usable
                /\ usable => result[i].summary = <<Strip(ended[1].content)>>
                /\ ~long => summarize_calls[i] = 0

\* C9 as stated: a chunk has a summary iff it is longer than the threshold
\* and its own summarize call returned success with non-empty content; the
\* summary is that call's trimmed content; no call for a shorter chunk.
C9_SummaryAttachment == SummaryRule(ReturnedContent)

\* C9: a chunk has a summary iff it is longer than the threshold and its own
\* summarize call returned success with content that is non-empty after
\* trimming; the summary is that call's trimmed content, whatever order the
\* calls of a batch end in; no call for a shorter chunk.
C9_SummaryAttachmentTrimmed == SummaryRule(ReturnedText)

\* the smart path returned a chunk with a summary, a chunk whose call
\* returned whitespace and a chunk whose call reported failure
C9_Witness ==
    /\ pc = "done" /\ strategy = "smart" /\ use_summaries /\ SmartPath
    /\ \E i, j, k \in 1..Len(result) :
          /\ result[i].summary = <<<<"s">>>>
          /\ summary_tasks[j].reply = <<Response(TRUE, <<" ">>)>>
          /\ summary_tasks[k].reply = <<Response(FALSE, <<"s">>)>>
          /\ result[j].summary = NoSummary /\ result[k].summary = NoSummary

\* C10: no retry. In a run of the smart strategy generate_response is called
\* at most once for a section, and not at all for a section that is empty or
\* fits max_chunk_size; summarize is called at most once for a chunk.
C10_NoRetry ==
    strategy = "smart" =>
        /\ \A k \in Sections :
              /\ generate_calls[k] <= 1
              /\ (Strip(document[k]) = <<>> \/ Len(document[k]) <= max_chunk_size)
                    => generate_calls[k] = 0
        /\ \A i \in 1..Len(summarize_calls) : summarize_calls[i] <= 1

\* the smart path returned after one failed generate_response call, one
\* failed summarize call, and no call for a section that fits
C10_Witness ==
    /\ pc = "done" /\ strategy = "smart" /\ SmartPath /\ only_failures
    /\ \E j, k \in Sections :
          /\ generate_calls[k] = 1
          /\ Len(ContentsOf(result, j)) = 1 /\ generate_calls[j] = 0
    /\ \E i \in 1..Len(summarize_calls) :
          summarize_calls[i] = 1 /\ summary_tasks[i].reply = <<Response(TRUE, <<>>)>>

-----------------------------------------------------------------------------
(* Claims on the break points                                              *)

\* the generate_response call ended with a response that is used: success
\* and non-empty content
Usable(reply) == ~reply.raised /\ reply.success /\ reply.content # <<>>

\* content[a..b] is a maximal run of digits
IsDigitRun(content, a, b) ==
    /\ 1 <= a /\ a <= b /\ b <= Len(content)
    /\ \A i \in a..b : IsDigit(content[i])
    /\ a = 1 \/ ~IsDigit(content[a - 1])
    /\ b = Len(content) \/ ~IsDigit(content[b + 1])

\* the integer that content[a..b] writes in decimal
RECURSIVE RunValue(_, _, _)
RunValue(content, a, b) ==
    IF a > b THEN 0 ELSE 10 * RunValue(content, a, b - 1) + DigitValue(content[b])

\* the maximal digit runs of content whose integer is v
RunsOf(content, v) ==
    {r \in (1..Len(content)) \X (1..Len(content)) :
        IsDigitRun(content, r[1], r[2]) /\ RunValue(content, r[1], r[2]) = v}

\* C11: break-point parsing. When generate_response ends with success and
\* non-empty content, the list _find_semantic_breaks returns is sorted
\* ascending and holds every integer v with 0 < v < len(text) as many times
\* as the response has maximal digit runs that write v, and nothing else.
C11_BreakPointParsing ==
    (b_pc \in {"found", "split"} /\ Usable(b_reply)) =>
        /\ \A k \in 1..(Len(b_breaks) - 1) : b_breaks[k] <= b_breaks[k + 1]
        /\ \A k \in 1..Len(b_breaks) : 0 < b_breaks[k] /\ b_breaks[k] < Len(b_text)
        /\ \A v \in 1..(Len(b_text) - 1) :
              Cardinality({k \in 1..Len(b_breaks) : b_breaks[k] = v})
                 = Cardinality(RunsOf(b_reply.content, v))

\* the response "2x1" for a text of five characters: [1, 2], the token x
\* ignored and the offsets sorted
C11_Witness ==
    /\ b_pc = "found"
    /\ b_reply = Response(TRUE, <<"2", "x", "1">>)
    /\ Len(b_text) = 5
    /\ b_breaks = <<1, 2>>

-----------------------------------------------------------------------------
(* More claims on the splitter                                             *)

-----------------------------------------------------------------------------
(* More claims on the break points                                         *)

\* the response is used and gives no offset: no maximal digit run of its
\* content writes an integer strictly between 0 and len(text)
Unparseable(text, reply) ==
    Usable(reply) /\ \A v \in 1..(Len(text) - 1) : RunsOf(reply.content, v) = {}

\* C14 as stated: a response without offsets makes _find_semantic_breaks
\* return the paragraph breaks of the text, as a failed call does.
C14_UnparseableGivesParagraphBreaks ==
    (b_pc \in {"found", "split"} /\ Unparseable(b_text, b_reply)) =>
        b_breaks = find_paragraph_breaks(b_text)

\* C14: a response without offsets makes _find_semantic_breaks return the
\* empty list, whatever paragraph breaks the text has, and
\* _split_at_break_points then returns the pieces of the size splitter; a
\* call that fails makes it return the paragraph breaks.
C14_UnparseableGivesNoBreaks ==
    /\ (b_pc \in {"found", "split"} /\ Unparseable(b_text, b_reply)) => b_breaks = <<>>
    /\ (b_pc = "split" /\ Unparseable(b_text, b_reply)) =>
          b_chunks = split_text_with_overlap(b_text, max_chunk_size, overlap_size)
    /\ (b_pc \in {"found", "split"} /\ ~Usable(b_reply)) =>
          b_breaks = find_paragraph_breaks(b_text)

\* the response "x" for a text with a paragraph break: no break point, and
\* the pieces of the size splitter
C14_Witness ==
    /\ b_pc = "split"
    /\ b_reply = Response(TRUE, <<"x">>)
    /\ find_paragraph_breaks(b_text) # <<>>
    /\ Len(b_text) > max_chunk_size
    /\ b_breaks = <<>>
    /\ Len(b_chunks) >= 2

-----------------------------------------------------------------------------
(* More claims on chunk_document                                           *)

\* the section the chunk at position i of the returned list was made from
SectionAt(i) == result[i].source_section

\* C15: batch order. In the list the smart path returns, a chunk of a
\* section of a batch comes before every chunk of a section of a later
\* batch, and the chunks of one section are contiguous and in the order the
\* section's task produced them, whatever order the tasks complete in.
C15_BatchOrder ==
    (pc = "done" /\ strategy = "smart" /\ SmartPath) =>
        /\ \A i, j \in 1..Len(result) :
              i < j => BatchNo(SectionAt(i)) <= BatchNo(SectionAt(j))
        /\ \A i, j, l \in 1..Len(result) :
              (i < j /\ j < l /\ SectionAt(i) = SectionAt(l)) => SectionAt(j) = SectionAt(i)
        /\ \A k \in Sections :
              ContentsOf(result, k) = [n \in 1..Len(tasks[k].chunks) |-> tasks[k].chunks[n].content]

\* the smart path returned chunks of two batches, the first batch out of
\* section order, and a section with several chunks
C15_Witness ==
    /\ pc = "done" /\ strategy = "smart" /\ SmartPath
    /\ \E i, j \in 1..Len(result) :
          i < j /\ SectionAt(i) > SectionAt(j) /\ SectionAt(i) # SectionAt(j)
    /\ \E i, j \in 1..Len(result) : BatchNo(SectionAt(i)) < BatchNo(SectionAt(j))
    /\ \E k \in Sections : Len(ContentsOf(result, k)) >= 2

\* C16: completion order within a batch. In the list the smart path
\* returns, the chunks of a section whose task completed earlier come before
\* the chunks of a section of the same batch whose task completed later,
\* whatever the order of the two sections in the document.
C16_CompletionOrder ==
    (pc = "done" /\ strategy = "smart" /\ SmartPath) =>
        \A i, j \in 1..Len(result) :
            (/\ BatchNo(SectionAt(i)) = BatchNo(SectionAt(j))
             /\ tasks[SectionAt(i)].completed < tasks[SectionAt(j)].completed) => i < j

\* the smart path returned a list that is not in section order: the task
\* of a later section of the batch completed first and its chunks come first
C16_Witness ==
    /\ pc = "done" /\ strategy = "smart" /\ SmartPath
    /\ \E i, j \in 1..Len(result) :
          /\ i < j /\ SectionAt(i) > SectionAt(j)
          /\ BatchNo(SectionAt(i)) = BatchNo(SectionAt(j))
          /\ tasks[SectionAt(i)].completed < tasks[SectionAt(j)].completed

\* line 215: await task has raised the exception of a section task
Escaped == \E k \in Sections : tasks[k].st = "raised"

\* C17: the whole-document fallback discards partial work. When an exception
\* has escaped the try block, the list chunk_document returns is the list of
\* the basic strategy over the whole document: no chunk of the semantic path
\* is in it, no chunk has a summary, no summarize call was made, and the
\* tasks of the failed batch that complete afterwards leave it as it is.
C17_FallbackDiscardsPartialWork ==
    (pc = "done" /\ strategy = "smart" /\ Escaped) =>
        /\ result = BasicList
        /\ \A i \in 1..Len(result) : result[i].summary = NoSummary
        /\ \A i \in 1..Len(result) : result[i].total_chunks = Len(BasicList)
        /\ summary_tasks = <<>>

\* the fallback has returned a list while a task of the failed batch has
\* built chunks on the semantic path and another one has completed after the
\* exception or is still running
C17_Witness ==
    /\ pc = "done" /\ strategy = "smart" /\ Escaped /\ result # <<>>
    /\ \E k \in BatchOf(batch_i) : tasks[k].st = "done" /\ tasks[k].chunks # <<>>
    /\ \E k \in BatchOf(batch_i) :
          \/ tasks[k].st = "awaiting"
          \/ tasks[k].st = "done" /\ tasks[k].completed > Len(batch_results)

\* C18: chunk_index is unique in the smart path. In every list returned by
\* the smart strategy the chunk_index values are pairwise distinct.
C18_UniqueChunkIndex ==
    (pc = "done" /\ strategy = "smart") =>
        \A i, j \in 1..Len(result) :
            result[i].chunk_index = result[j].chunk_index => i = j

\* C19: bounded chunk size in the smart path. Every chunk the smart
\* strategy returns has a content of at most max_chunk_size characters,
\* whatever break points _find_semantic_breaks returned for its section.
C19_SmartSizeBound ==
    (pc = "done" /\ strategy = "smart") =>
        \A i \in 1..Len(result) : Len(result[i].content) <= max_chunk_size

\* the sections in the order their chunks are collected: batch after batch,
\* the tasks of a batch in completion order
CollectionOrder ==
    SortSeq([k \in 1..Len(document) |-> k],
            LAMBDA a, b : \/ BatchNo(a) < BatchNo(b)
                          \/ BatchNo(a) = BatchNo(b) /\ tasks[a].completed < tasks[b].completed)

\* the list the smart path returns when no chunk is given a summary
WithoutSummaries ==
    LET lists == [k \in 1..Len(document) |-> tasks[CollectionOrder[k]].chunks]
    IN  SmartTotals(Concat(lists, Len(lists)))

\* list with the summaries taken off
Unsummarised(list) == [k \in 1..Len(list) |-> [list[k] EXCEPT !.summary = NoSummary]]

\* the batch of the summary task at position k: the tasks go by five
SummaryBatchNo(k) == (k - 1) \div summary_batch_size

\* the summary of a chunk whose summarize call ended with reply, as its own
\* task and the test of line 243 give it
OwnSummary(reply) ==
    LET value == generate_summary(reply)
    IN  IF Assigned(value) THEN value ELSE NoSummary

\* C20: summary failure isolation. A summarize call that raises, reports no
\* success or returns empty content leaves its own chunk without a summary
\* and nothing else changed: every other chunk that is summarised has had
\* its own call and has the summary that call alone gives it, in the same
\* batch and in later batches; the exception handler is never entered from
\* the summaries; the returned list, summaries apart, is the one the
\* section tasks built, whatever the summarize calls ended with.
C20_SummaryFailureIsolation ==
    /\ []((pc = "done" /\ strategy = "smart" /\ use_summaries /\ SmartPath) =>
            /\ Unsummarised(result) = WithoutSummaries
            /\ \A i \in 1..Len(result) :
                  Len(result[i].content) > SummaryThreshold =>
                      /\ summarize_calls[i] = 1
                      /\ summary_tasks[i].reply # <<>>
                      /\ Failed(summary_tasks[i].reply[1]) => result[i].summary = NoSummary
                      /\ result[i].summary = OwnSummary(summary_tasks[i].reply[1]))
    /\ [][(pc \in {"summaries", "gather", "totals"}) => (pc' \notin {"except", "raised"})]_vars

\* the smart path returned a list in which a chunk has a summary while the
\* summarize call of another chunk of its batch raised, and a chunk of a
\* later batch has a summary as well
C20_Witness ==
    /\ pc = "done" /\ strategy = "smart" /\ use_summaries /\ SmartPath
    /\ \E i, j, k \in 1..Len(result) :
          /\ SummaryBatchNo(i) = SummaryBatchNo(j) /\ SummaryBatchNo(k) > SummaryBatchNo(i)
          /\ summary_tasks[i].reply = <<Raises>> /\ result[i].summary = NoSummary
          /\ result[j].summary # NoSummary
          /\ result[k].summary # NoSummary

====
